---------------------------- MODULE Spec2Model ----------------------------
(***************************************************************************)
(* Model of the experience analyzer: ExperienceRecord and its derived      *)
(* fields (models.py), the reconciler compare_certificates_with_cv         *)
(* (comparer.py), merge_overlapping_records and the text parser            *)
(* parse_experiences_from_text (text_parser.py).                           *)
(*                                                                         *)
(* Records are objects: `heap` holds every ExperienceRecord the caller has *)
(* constructed, a reference is an index into it.  Dates are proleptic      *)
(* ordinals (date.min is ordinal 1).  A string is a sequence of one        *)
(* character strings.                                                      *)
(***************************************************************************)
EXTENDS Integers, Sequences, FiniteSets

VARIABLES
    heap,         \* the ExperienceRecord objects built by the caller, by reference
    synth,        \* the ExperienceRecord objects built inside the last compare call
    grouped,      \* merge_overlapping_records: the groups, in dict insertion order
    merged,       \* the list returned by the last merge_overlapping_records call
    comparisons,  \* the list returned by the last compare_certificates_with_cv call
    call,         \* the last call made and its arguments
    before,       \* the heap as it was when the last call was made
    returned      \* what the last call of a function of text_parser.py returned

vars == <<heap, synth, grouped, merged, comparisons, call, before, returned>>

---------------------------------------------------------------------------
(* Optional values.                                                        *)

\* Optional[date] = None; every date has an ordinal >= 1
NoDate == 0
\* Optional[int] = None for experience_days, which may be 0
NoDays == -1
\* Optional[str] = None for employer, distinct from the empty string <<>>
NoneStr == <<"<None>">>
\* Optional[ExperienceRecord] = None for cv_entry; references are >= 1
NoRef == 0
\* date.min
DateMin == 1

---------------------------------------------------------------------------
(* models.py                                                               *)

\* mutant: the latest of end_date and issue_date instead of the earliest
ComputeEffectiveEndLatest(start_date, end_date, issue_date) ==
    IF start_date = NoDate THEN NoDate
    ELSE IF end_date = NoDate THEN issue_date
    ELSE IF issue_date = NoDate THEN end_date
    ELSE IF end_date >= issue_date THEN end_date ELSE issue_date

_compute_effective_end(start_date, end_date, issue_date) ==
    IF start_date = NoDate THEN NoDate
    ELSE LET candidates == {d \in {end_date, issue_date} : d /= NoDate}
         IN  IF candidates = {} THEN NoDate
             ELSE CHOOSE d \in candidates : \A e \in candidates : d <= e

\* mutant: the difference without the inclusive + 1
ComputeDaysExclusive(start, end) ==
    IF start = NoDate \/ end = NoDate THEN NoDays
    ELSE IF end < start THEN 0
    ELSE end - start

_compute_days(start, end) ==
    IF start = NoDate \/ end = NoDate THEN NoDays
    ELSE IF end < start THEN 0
    ELSE (end - start) + 1

\* ExperienceRecord.__post_init__: the derived fields from the raw dates
__post_init__(self) ==
    LET eff == _compute_effective_end(self.start_date, self.end_date, self.issue_date)
    IN  [self EXCEPT !.effective_end_date = eff,
                     !.experience_days = _compute_days(self.start_date, eff)]

\* The dataclass constructor: the init fields, then __post_init__
ExperienceRecord(source, employer, start_date, end_date, issue_date) ==
    __post_init__([source |-> source, employer |-> employer,
                   start_date |-> start_date, end_date |-> end_date,
                   issue_date |-> issue_date,
                   effective_end_date |-> NoDate, experience_days |-> NoDays])

ComparisonResult(certificate, cv_entry, start_date_match, details) ==
    [certificate |-> certificate, cv_entry |-> cv_entry,
     start_date_match |-> start_date_match, details |-> details]

---------------------------------------------------------------------------
(* comparer.py: employer names                                             *)

\* the upper-case letters and, position by position, their lower-case forms
UpperLetters ==
    <<"A", "B", "C", "D", "E", "F", "G", "H", "I", "J", "K", "L", "M", "N", "O",
      "P", "Q", "R", "S", "T", "U", "V", "W", "X", "Y", "Z",
      "Á", "É", "Í", "Ó", "Ú", "Ñ">>
LowerLetters ==
    <<"a", "b", "c", "d", "e", "f", "g", "h", "i", "j", "k", "l", "m", "n", "o",
      "p", "q", "r", "s", "t", "u", "v", "w", "x", "y", "z",
      "á", "é", "í", "ó", "ú", "ñ">>
Digits == <<"0", "1", "2", "3", "4", "5", "6", "7", "8", "9">>

IndexIn(seq, ch) == CHOOSE k \in DOMAIN seq : seq[k] = ch
Range(seq) == {seq[k] : k \in DOMAIN seq}

\* str.lower on one character
LowerChar(ch) ==
    IF ch \in Range(UpperLetters) THEN LowerLetters[IndexIn(UpperLetters, ch)] ELSE ch

lower(s) == [k \in 1 .. Len(s) |-> LowerChar(s[k])]

\* the replacements table of _normalize_name, applied to one character
ReplaceChar(ch) ==
    CASE ch = "á" -> "a" [] ch = "é" -> "e" [] ch = "í" -> "i"
      [] ch = "ó" -> "o" [] ch = "ú" -> "u" [] ch = "ñ" -> "n"
      [] OTHER -> ch

\* str.isspace and str.isalnum on the characters the model uses; "ü" is a
\* letter that the replacements table leaves alone
isspace(ch) == ch \in {" ", "\t", "\n", "\r"}
\* the decimal digits, \d
DigitClass == Range(Digits)
isalnum(ch) ==
    ch \in Range(UpperLetters) \cup Range(LowerLetters) \cup Range(Digits) \cup {"ü"}

RECURSIVE lstrip(_)
lstrip(s) == IF s /= <<>> /\ isspace(Head(s)) THEN lstrip(Tail(s)) ELSE s

RECURSIVE rstrip(_)
rstrip(s) ==
    IF s /= <<>> /\ isspace(s[Len(s)]) THEN rstrip(SubSeq(s, 1, Len(s) - 1)) ELSE s

strip(s) == rstrip(lstrip(s))

_normalize_name(name) ==
    IF name = NoneStr \/ name = <<>> THEN <<>>
    ELSE LET cleaned == [k \in 1 .. Len(name) |-> ReplaceChar(LowerChar(name[k]))]
             kept == SelectSeq(cleaned, LAMBDA ch : isalnum(ch) \/ isspace(ch))
         IN  strip(kept)

---------------------------------------------------------------------------
(* difflib.SequenceMatcher(None, a, b).ratio() for strings shorter than    *)
(* 200 characters (no automatic junk): 2 * M / T                           *)

\* length of the common run of a from i and b from j inside [i, ahi) x [j, bhi)
RECURSIVE RunLength(_, _, _, _, _, _)
RunLength(a, b, i, ahi, j, bhi) ==
    IF i < ahi /\ j < bhi /\ a[i] = b[j]
    THEN 1 + RunLength(a, b, i + 1, ahi, j + 1, bhi)
    ELSE 0

\* the longest of the blocks found, the earliest in a, then in b
LongestOf(found, alo, blo) ==
    IF found = {} THEN <<alo, blo, 0>>
    ELSE CHOOSE m \in found :
            \A o \in found :
                \/ m[3] > o[3]
                \/ m[3] = o[3] /\ m[1] < o[1]
                \/ m[3] = o[3] /\ m[1] = o[1] /\ m[2] <= o[2]

\* find_longest_match(alo, ahi, blo, bhi), as <<i, j, size>>
find_longest_match(a, b, alo, ahi, blo, bhi) ==
    LongestOf({m \in {<<i, j, RunLength(a, b, i, ahi, j, bhi)>> :
                        i \in alo .. ahi - 1, j \in blo .. bhi - 1} : m[3] > 0},
              alo, blo)

\* get_matching_blocks: the sum of the sizes of the matching blocks; the
\* block m is kept and both sides of it are searched in turn
RECURSIVE MatchingSize(_, _, _, _, _, _)
RECURSIVE AroundBlock(_, _, _, _, _, _, _)
AroundBlock(a, b, alo, ahi, blo, bhi, m) ==
    IF m[3] = 0 THEN 0
    ELSE m[3] + MatchingSize(a, b, alo, m[1], blo, m[2])
              + MatchingSize(a, b, m[1] + m[3], ahi, m[2] + m[3], bhi)

MatchingSize(a, b, alo, ahi, blo, bhi) ==
    IF alo >= ahi \/ blo >= bhi THEN 0
    ELSE AroundBlock(a, b, alo, ahi, blo, bhi,
                     find_longest_match(a, b, alo, ahi, blo, bhi))

\* A non-negative rational number, num / den with den > 0
Frac(num, den) == [num |-> num, den |-> den]
FracGT(x, y) == x.num * y.den > y.num * x.den
FracEQ(x, y) == x.num * y.den = y.num * x.den

\* ratio(): 2.0 * matches / (len(a) + len(b))
ratio(a, b) ==
    IF Len(a) + Len(b) = 0 THEN Frac(1, 1)
    ELSE Frac(2 * MatchingSize(a, b, 1, Len(a) + 1, 1, Len(b) + 1), Len(a) + Len(b))

\* the similarity of two normalized names
SimilarityOfNormalized(a_norm, b_norm) ==
    IF a_norm = <<>> \/ b_norm = <<>> THEN Frac(0, 1) ELSE ratio(a_norm, b_norm)

_employer_similarity(a, b) ==
    SimilarityOfNormalized(_normalize_name(a), _normalize_name(b))

Abs(n) == IF n < 0 THEN 0 - n ELSE n
Max(a, b) == IF a > b THEN a ELSE b

_date_difference(a, b) == IF a = NoDate \/ b = NoDate THEN NoDays ELSE Abs(a - b)

---------------------------------------------------------------------------
(* text_parser.py: merge_overlapping_records                               *)

\* (record.employer or "").strip().lower()
MergeKey(record) ==
    lower(strip(IF record.employer = NoneStr THEN <<>> ELSE record.employer))

\* grouped.setdefault(key, []).append(record); groups keeps the keys in
\* insertion order, as a dict does
Grouped(groups, key, record) ==
    IF \E g \in DOMAIN groups : groups[g].key = key
    THEN [g \in DOMAIN groups |->
            IF groups[g].key = key
            THEN [groups[g] EXCEPT !.items = Append(@, record)]
            ELSE groups[g]]
    ELSE Append(groups, [key |-> key, items |-> <<record>>])

\* the loop of lines 220-222 from position k on
RECURSIVE GroupLoop(_, _, _, _)
GroupLoop(H, records, k, groups) ==
    IF k > Len(records) THEN groups
    ELSE GroupLoop(H, records, k + 1,
                   Grouped(groups, MergeKey(H[records[k]]), records[k]))

\* rec.start_date or date.min
SortKey(record) == IF record.start_date = NoDate THEN DateMin ELSE record.start_date

\* last placed after the entries of the sorted list rest that do not follow it
InsertedLast(H, rest, last) ==
    LET n == Cardinality({j \in DOMAIN rest : SortKey(H[rest[j]]) <= SortKey(H[last])})
    IN  SubSeq(rest, 1, n) \o <<last>> \o SubSeq(rest, n + 1, Len(rest))

\* sorted(items, key=...): a stable sort, by insertion
RECURSIVE SortedByStart(_, _)
SortedByStart(H, items) ==
    IF items = <<>> THEN <<>>
    ELSE InsertedLast(H, SortedByStart(H, SubSeq(items, 1, Len(items) - 1)),
                      items[Len(items)])

\* x or y on optional dates
OrDate(x, y) == IF x /= NoDate THEN x ELSE y

\* mutant: the raw dates are overwritten and the derived fields left as they were
AbsorbWithoutRecompute(current, next_item) ==
    [current EXCEPT !.end_date = OrDate(next_item.end_date, current.end_date),
                    !.issue_date = OrDate(next_item.issue_date, current.issue_date)]

\* lines 247-249: current takes the dates of next_item and is recomputed
Absorb(current, next_item) ==
    __post_init__(
        [current EXCEPT !.end_date = OrDate(next_item.end_date, current.end_date),
                        !.issue_date = OrDate(next_item.issue_date, current.issue_date)])

\* the condition of line 234: next_item starts inside or next to current
Overlaps(current, next_item) ==
    /\ current.start_date /= NoDate
    /\ next_item.start_date /= NoDate
    /\ current.effective_end_date /= NoDate
    /\ next_item.start_date <= current.effective_end_date

\* the condition of line 240: next_item reaches further than current
ReachesFurther(current, next_item) ==
    /\ next_item.effective_end_date /= NoDate
    /\ \/ current.effective_end_date = NoDate
       \/ next_item.effective_end_date > current.effective_end_date

\* the loop over items[1:] from position k on.  current is a reference: an
\* absorption assigns to the fields of the object it denotes, in the heap
RECURSIVE FoldLoop(_, _, _, _, _)
FoldLoop(H, items, k, current, out) ==
    IF k > Len(items) THEN [heap |-> H, merged |-> Append(out, current)]
    ELSE IF Overlaps(H[current], H[items[k]])
         THEN FoldLoop(IF ReachesFurther(H[current], H[items[k]])
                       THEN [H EXCEPT ![current] = Absorb(H[current], H[items[k]])]
                       ELSE H,
                       items, k + 1, current, out)
         ELSE FoldLoop(H, items, k + 1, items[k], Append(out, current))

\* one group: its items sorted, current = items[0], then the loop
FoldGroup(H, items, out) == FoldLoop(H, items, 2, items[1], out)

\* the loop over grouped.values() from group g on; done holds the heap and
\* the merged list so far
RECURSIVE GroupsLoop(_, _, _)
GroupsLoop(groups, g, done) ==
    IF g > Len(groups) THEN done
    ELSE GroupsLoop(groups, g + 1,
                    FoldGroup(done.heap, SortedByStart(done.heap, groups[g].items),
                              done.merged))

\* what the call leaves: the heap, the groups and the list returned
MergeOutcome(groups, done) ==
    [heap |-> done.heap, grouped |-> groups, merged |-> done.merged]

MergeGroups(H, groups) ==
    MergeOutcome(groups, GroupsLoop(groups, 1, [heap |-> H, merged |-> <<>>]))

\* merge_overlapping_records(records) over the heap H
merge_overlapping_records(H, records) ==
    MergeGroups(H, GroupLoop(H, records, 1, <<>>))

---------------------------------------------------------------------------
(* The records the callers build.                                          *)

Certificado(employer, start_date, end_date, issue_date) ==
    ExperienceRecord(<<"Certificado">>, employer, start_date, end_date, issue_date)

HojaDeVida(employer, start_date, end_date, issue_date) ==
    ExperienceRecord(<<"Hoja de vida">>, employer, start_date, end_date, issue_date)

CertificatePool ==
    { Certificado(<<"A", "b", ".">>, 10, 40, 45),
      Certificado(<<"A", "b", ".">>, NoDate, 40, NoDate),
      Certificado(<<"c", "d">>, 10, NoDate, 45),
      Certificado(NoneStr, 10, 40, 45),
      Certificado(<<"a", "b", "c", "d">>, 100, 120, NoDate) }

CvPool ==
    { HojaDeVida(<<"á", "B">>, 12, 40, 50),
      HojaDeVida(<<"a", "b">>, 18, 45, NoDate),
      HojaDeVida(<<"b", "a">>, 17, NoDate, 30),
      HojaDeVida(<<"c", "d">>, 10, 20, 25),
      HojaDeVida(NoneStr, 10, NoDate, 30),
      HojaDeVida(<<"a", "x", "y", "z">>, NoDate, NoDate, NoDate),
      HojaDeVida(<<"a", "x", "y", "z">>, 60, 70, 65) }

\* the records of the caller that constructs, merges and compares
RecordPool ==
    { Certificado(<<"A", "b", ".">>, 10, 40, NoDate),
      Certificado(<<"A", "b", ".">>, 20, NoDate, 60),
      Certificado(<<" ", "A", "B", ".">>, 30, 70, 80),
      Certificado(<<"á", "B">>, 25, 35, 50),
      Certificado(<<"a", "b">>, NoDate, 45, 50) }

\* the employer names in use, and their pairwise similarity computed once
EmployerNames == {r.employer : r \in CertificatePool \cup CvPool \cup RecordPool}

SimilarityTable ==
    [a \in EmployerNames, b \in EmployerNames |-> _employer_similarity(a, b)]

\* _employer_similarity(a, b), read from the table
EmployerSimilarity(a, b) == SimilarityTable[a, b]

---------------------------------------------------------------------------
(* comparer.py: scoring and reconciliation                                 *)

StartMatchDays == 7
DefaultStartDiff == 60
DateScale == 30
NameWeight == 7
DateWeight == 3
WeightScale == 10
MatchThreshold == 3

\* start_diff is not None and start_diff <= 7
StartMatch(start_diff) == start_diff /= NoDays /\ start_diff <= StartMatchDays

\* 1.0 if start_match else 1.0 / (1 + (start_diff or 60) / 30)
DateScore(start_diff) ==
    IF StartMatch(start_diff) THEN Frac(1, 1)
    ELSE IF start_diff = NoDays \/ start_diff = 0
         THEN Frac(DateScale, DateScale + DefaultStartDiff)
         ELSE Frac(DateScale, DateScale + start_diff)

\* mutant: the two weights exchanged, 0.3 * similarity + 0.7 * date_score
CombinedScoreDateHeavy(similarity, date_score) ==
    Frac(DateWeight * similarity.num * date_score.den
            + NameWeight * date_score.num * similarity.den,
         WeightScale * similarity.den * date_score.den)

\* 0.7 * similarity + 0.3 * date_score, as an exact fraction
CombinedScore(similarity, date_score) ==
    Frac(NameWeight * similarity.num * date_score.den
            + DateWeight * date_score.num * similarity.den,
         WeightScale * similarity.den * date_score.den)

\* the MatchScore built from the similarity and the start difference
MatchScore(similarity, start_diff) ==
    [score |-> CombinedScore(similarity, DateScore(start_diff)),
     start_date_match |-> StartMatch(start_diff)]

_score_pair(certificate, cv_entry) ==
    MatchScore(EmployerSimilarity(certificate.employer, cv_entry.employer),
               _date_difference(certificate.start_date, cv_entry.start_date))

\* best_score is None
NoBest == [best_idx |-> 0]

\* mutant: the first score is kept whatever the later ones are
KeepFirst(idx, score, best) ==
    IF best = NoBest
    THEN [best_idx |-> idx, score |-> score.score,
          start_date_match |-> score.start_date_match]
    ELSE best

\* lines 77-79: best_score and best_idx after the score of entry idx
Better(idx, score, best) ==
    IF best = NoBest \/ FracGT(score.score, best.score)
    THEN [best_idx |-> idx, score |-> score.score,
          start_date_match |-> score.start_date_match]
    ELSE best

\* the inner loop of compare_certificates_with_cv from index idx on: the first
\* entry of cv_list with the greatest score
RECURSIVE BestScore(_, _, _, _, _)
BestScore(H, certificate, cv_list, idx, best) ==
    IF idx > Len(cv_list) THEN best
    ELSE BestScore(H, certificate, cv_list, idx + 1,
                   Better(idx, _score_pair(H[certificate], H[cv_list[idx]]), best))

\* mutant: a score of exactly 0.3 is accepted
AcceptedAtThreshold(best) ==
    best /= NoBest /\ ~FracGT(Frac(MatchThreshold, WeightScale), best.score)

\* best_score and best_score.score > 0.3
Accepted(best) ==
    best /= NoBest /\ FracGT(best.score, Frac(MatchThreshold, WeightScale))

\* the ComparisonResult appended for one certificate, given its best_score
CertificateResult(certificate, cv_list, best) ==
    IF Accepted(best)
    THEN ComparisonResult(certificate, cv_list[best.best_idx],
                          best.start_date_match,
                          IF best.start_date_match
                          THEN "Coincidencia por empleador y fecha"
                          ELSE "Coincidencia parcial")
    ELSE ComparisonResult(certificate, NoRef, FALSE,
                          "No se encontró coincidencia en la hoja de vida")

\* lines 80-102: comparisons and used_cv_indices after one certificate
AfterCertificate(acc, certificate, cv_list, best) ==
    [comparisons |-> Append(acc.comparisons, CertificateResult(certificate, cv_list, best)),
     used_cv_indices |-> IF Accepted(best)
                         THEN acc.used_cv_indices \cup {best.best_idx}
                         ELSE acc.used_cv_indices]

\* the loop over the certificates from position c on
RECURSIVE CertificateLoop(_, _, _, _, _)
CertificateLoop(H, certificates, cv_list, c, acc) ==
    IF c > Len(certificates) THEN acc
    ELSE CertificateLoop(H, certificates, cv_list, c + 1,
             AfterCertificate(acc, certificates[c], cv_list,
                              BestScore(H, certificates[c], cv_list, 1, NoBest)))

\* mutant: every résumé entry gets an informational row
UnusedAlways(idx, used_cv_indices) == TRUE

\* idx not in used_cv_indices
Unused(idx, used_cv_indices) == idx \notin used_cv_indices

\* the record built for a résumé entry that no certificate was matched to
SyntheticCertificate(cv_entry) ==
    ExperienceRecord(<<"Hoja de vida">>, cv_entry.employer, cv_entry.start_date,
                     cv_entry.end_date, NoDate)

\* lines 104-119: the rows appended for the unused indices of cv_list, each
\* with a record built for it.  A reference -j is to built[j].
WithInformationalRows(H, cv_list, results, unused) ==
    [comparisons |->
        results \o [j \in 1 .. Len(unused) |->
                      ComparisonResult(0 - j, cv_list[unused[j]], TRUE,
                                       "Registro presente solo en la hoja de vida")],
     built |-> [j \in 1 .. Len(unused) |-> SyntheticCertificate(H[cv_list[unused[j]]])]]

AfterCertificates(H, cv_list, acc) ==
    WithInformationalRows(H, cv_list, acc.comparisons,
        SelectSeq([idx \in 1 .. Len(cv_list) |-> idx],
                  LAMBDA idx : Unused(idx, acc.used_cv_indices)))

\* compare_certificates_with_cv(certificates, cv_entries) over the heap H: the
\* list returned and the records it built
compare_certificates_with_cv(H, certificates, cv_entries) ==
    AfterCertificates(H, cv_entries,
        CertificateLoop(H, certificates, cv_entries, 1,
                        [comparisons |-> <<>>, used_cv_indices |-> {}]))

\* the record a reference of a ComparisonResult denotes
Deref(ref) == IF ref > 0 THEN heap[ref] ELSE synth[0 - ref]

---------------------------------------------------------------------------
(* text_parser.py: dates.  datetime.date(year, month, day) is its ordinal, *)
(* date.toordinal(); a call that raises ValueError gives ValueError.       *)

\* the outcome of a call that raised ValueError
ValueError == -1

IsLeap(year) == year % 4 = 0 /\ (year % 100 /= 0 \/ year % 400 = 0)

DaysInMonth(year, month) ==
    IF month = 2 THEN (IF IsLeap(year) THEN 29 ELSE 28)
    ELSE IF month \in {4, 6, 9, 11} THEN 30 ELSE 31

\* the days of the year before the first of the month
RECURSIVE DaysBeforeMonth(_, _)
DaysBeforeMonth(year, month) ==
    IF month = 1 THEN 0
    ELSE DaysBeforeMonth(year, month - 1) + DaysInMonth(year, month - 1)

\* the days before the first of January of the year
DaysBeforeYear(year) ==
    (year - 1) * 365 + (year - 1) \div 4 - (year - 1) \div 100 + (year - 1) \div 400

toordinal(year, month, day) ==
    DaysBeforeYear(year) + DaysBeforeMonth(year, month) + day

\* date(year, month, day)
Date(year, month, day) ==
    IF /\ year \in 1 .. 9999
       /\ month \in 1 .. 12
       /\ day \in 1 .. DaysInMonth(year, month)
    THEN toordinal(year, month, day)
    ELSE ValueError

\* int(s) for a string of decimal digits
RECURSIVE int(_)
int(s) ==
    IF s = <<>> THEN 0
    ELSE 10 * int(SubSeq(s, 1, Len(s) - 1)) + (IndexIn(Digits, s[Len(s)]) - 1)

AllDigits(s) == s /= <<>> /\ \A k \in DOMAIN s : s[k] \in DigitClass

\* str.split(sep) for a separator of one character
RECURSIVE split(_, _)
split(s, sep) ==
    IF \A k \in DOMAIN s : s[k] /= sep THEN <<s>>
    ELSE <<SubSeq(s, 1, IndexIn(s, sep) - 1)>>
            \o split(SubSeq(s, IndexIn(s, sep) + 1, Len(s)), sep)

\* the value of the field under a strptime directive, or ValueError when the
\* directive's pattern does not match the whole field:
\*   %d  3[0-1]|[1-2]\d|0[1-9]|[1-9]| [1-9]      %m  1[0-2]|0[1-9]|[1-9]
\*   %Y  \d\d\d\d                                %y  \d\d (69-99: 19xx, 00-68: 20xx)
Directive(name, field) ==
    IF name = "d" /\ Len(field) = 2 /\ field[1] = " " /\ field[2] \in DigitClass /\ field[2] /= "0"
    THEN int(Tail(field))
    ELSE IF ~AllDigits(field) THEN ValueError
    ELSE IF name = "d"
         THEN (IF Len(field) <= 2 /\ int(field) \in 1 .. 31 THEN int(field) ELSE ValueError)
    ELSE IF name = "m"
         THEN (IF Len(field) <= 2 /\ int(field) \in 1 .. 12 THEN int(field) ELSE ValueError)
    ELSE IF name = "Y"
         THEN (IF Len(field) = 4 THEN int(field) ELSE ValueError)
    ELSE IF Len(field) /= 2 THEN ValueError
    ELSE IF int(field) <= 68 THEN 2000 + int(field) ELSE 1900 + int(field)

\* the formats _parse_numeric_date tries, in order: the separator and the
\* directives of the three fields
NumericFormats ==
    << [sep |-> "/", fields |-> <<"d", "m", "Y">>],
       [sep |-> "-", fields |-> <<"d", "m", "Y">>],
       [sep |-> "/", fields |-> <<"d", "m", "y">>],
       [sep |-> "-", fields |-> <<"d", "m", "y">>],
       [sep |-> "-", fields |-> <<"Y", "m", "d">>] >>

\* the datetime of the fields between the separators: ValueError (ok is
\* FALSE) unless there are three, each matches its directive and the day exists
DatetimeOf(fmt, parts) ==
    IF Len(parts) /= 3 THEN [ok |-> FALSE]
    ELSE IF \E k \in 1 .. 3 : Directive(fmt.fields[k], parts[k]) = ValueError
         THEN [ok |-> FALSE]
    ELSE LET at(name) == Directive(name, parts[IndexIn(fmt.fields, name)])
             year == IF "Y" \in Range(fmt.fields) THEN at("Y") ELSE at("y")
         IN  IF Date(year, at("m"), at("d")) = ValueError THEN [ok |-> FALSE]
             ELSE [ok |-> TRUE, year |-> year, month |-> at("m"), day |-> at("d")]

\* datetime.strptime(text, fmt); ok is FALSE when it raises ValueError
strptime(text, fmt) == DatetimeOf(fmt, split(text, fmt.sep))

\* lines 75-77: a year below 100 is taken to the 2000s below 50, else the 1900s
CenturyOf(year) ==
    IF year < 100 THEN (IF year < 50 THEN year + 2000 ELSE year + 1900) ELSE year

\* the loop of _parse_numeric_date from format k on
RECURSIVE NumericFrom(_, _)
RECURSIVE AfterStrptime(_, _, _)
AfterStrptime(text, k, dt) ==
    IF dt.ok /\ Date(CenturyOf(dt.year), dt.month, dt.day) /= ValueError
    THEN Date(CenturyOf(dt.year), dt.month, dt.day)
    ELSE NumericFrom(text, k + 1)

NumericFrom(text, k) ==
    IF k > Len(NumericFormats) THEN NoDate
    ELSE AfterStrptime(text, k, strptime(text, NumericFormats[k]))

_parse_numeric_date(text) == NumericFrom(text, 1)

---------------------------------------------------------------------------
(* text_parser.py: DATE_PATTERN and the dates written with a month name.    *)
(* A position is an index into the text; a matcher takes the position it    *)
(* starts at and gives the position after what it matched, or NoMatch.      *)

NoMatch == 0

\* the number of characters from position p on that are in the class
RunIn(s, p, class) ==
    (CHOOSE q \in p .. Max(p, Len(s) + 1) :
        /\ q > Len(s) \/ s[q] \notin class
        /\ \A k \in p .. q - 1 : s[k] \in class) - p

\* \s and [a-zA-Záéíóúñ] under re.IGNORECASE
SpaceClass == {" ", "\t", "\n", "\r"}
LetterClass == Range(LowerLetters) \cup Range(UpperLetters)

\* \d{1,2} followed by something that is not a digit
Digits12(s, p) ==
    IF p /= NoMatch /\ RunIn(s, p, DigitClass) \in {1, 2}
    THEN p + RunIn(s, p, DigitClass) ELSE NoMatch

\* \d{2} and \d{4}
DigitsN(s, p, n) ==
    IF p /= NoMatch /\ RunIn(s, p, DigitClass) >= n THEN p + n ELSE NoMatch

\* \d{2,4}
Digits24(s, p) ==
    IF p /= NoMatch /\ RunIn(s, p, DigitClass) >= 2
    THEN (IF RunIn(s, p, DigitClass) >= 4 THEN p + 4 ELSE p + RunIn(s, p, DigitClass))
    ELSE NoMatch

\* \s+ and \s*
Spaces1(s, p) ==
    IF p /= NoMatch /\ RunIn(s, p, SpaceClass) >= 1
    THEN p + RunIn(s, p, SpaceClass) ELSE NoMatch

Spaces0(s, p) == IF p /= NoMatch THEN p + RunIn(s, p, SpaceClass) ELSE NoMatch

\* [a-zA-Záéíóúñ]+ followed by something that is not such a letter
Letters1(s, p) ==
    IF p /= NoMatch /\ RunIn(s, p, LetterClass) >= 1
    THEN p + RunIn(s, p, LetterClass) ELSE NoMatch

\* the lower-case word, whatever the case of the text
Literal(s, p, word) ==
    IF /\ p /= NoMatch
       /\ p + Len(word) - 1 <= Len(s)
       /\ \A k \in DOMAIN word : LowerChar(s[p + k - 1]) = word[k]
    THEN p + Len(word) ELSE NoMatch

\* [/-]
Separator(s, p) ==
    IF p /= NoMatch /\ p <= Len(s) /\ s[p] \in {"/", "-"} THEN p + 1 ELSE NoMatch

\* de\s+
De(s, p) == Spaces1(s, Literal(s, p, <<"d", "e">>))

\* d[ií]as\s+del\s+mes\s+de\s+
DiasDelMesDe(s, p) ==
    De(s, Spaces1(s, Literal(s,
          Spaces1(s, Literal(s,
              Spaces1(s, IF Literal(s, p, <<"d", "i", "a", "s">>) /= NoMatch
                         THEN Literal(s, p, <<"d", "i", "a", "s">>)
                         ELSE Literal(s, p, <<"d", "í", "a", "s">>)),
              <<"d", "e", "l">>)),
          <<"m", "e", "s">>)))

\* (?:de\s+|d[ií]as\s+del\s+mes\s+de\s+)
Particle(s, p) == IF De(s, p) /= NoMatch THEN De(s, p) ELSE DiasDelMesDe(s, p)

\* \d{1,2}[/-]\d{1,2}[/-]\d{2,4}
NumericPattern(s, p) ==
    Digits24(s, Separator(s, Digits12(s, Separator(s, Digits12(s, p)))))

\* \d{4}-\d{2}-\d{2}
IsoPattern(s, p) ==
    DigitsN(s, Literal(s, DigitsN(s, Literal(s, DigitsN(s, p, 4), <<"-">>), 2), <<"-">>), 2)

\* the position of the month name: after \d{1,2}\s+(?:de\s+|d[ií]as ... de\s+)
DayFirstMonthAt(s, p) == Particle(s, Spaces1(s, Digits12(s, p)))

\* \d{1,2}\s+(?:de\s+|d[ií]as\s+del\s+mes\s+de\s+)[a-zA-Záéíóúñ]+\s+de\s+\d{4}
DayFirstPattern(s, p) ==
    DigitsN(s, Spaces1(s, Literal(s, Spaces1(s, Letters1(s, DayFirstMonthAt(s, p))),
                                  <<"d", "e">>)), 4)

\* the position of the year: after [a-zA-Záéíóúñ]+\s+\d{1,2},\s*
MonthFirstYearAt(s, p) ==
    Spaces0(s, Literal(s, Digits12(s, Spaces1(s, Letters1(s, p))), <<",">>))

\* [a-zA-Záéíóúñ]+\s+\d{1,2},\s*\d{4}
MonthFirstPattern(s, p) == DigitsN(s, MonthFirstYearAt(s, p), 4)

\* DATE_PATTERN matched at position p: the alternatives in order
DatePatternAt(s, p) ==
    IF NumericPattern(s, p) /= NoMatch THEN NumericPattern(s, p)
    ELSE IF IsoPattern(s, p) /= NoMatch THEN IsoPattern(s, p)
    ELSE IF DayFirstPattern(s, p) /= NoMatch THEN DayFirstPattern(s, p)
    ELSE MonthFirstPattern(s, p)

\* DATE_PATTERN.finditer(s) from position p on: the matches, each with
\* match.start(), match.end() and match.group("date")
RECURSIVE finditer(_, _)
RECURSIVE MatchesFrom(_, _)
MatchesFrom(s, p) ==
    <<[start |-> p - 1, end |-> DatePatternAt(s, p) - 1,
       date |-> SubSeq(s, p, DatePatternAt(s, p) - 1)]>>
        \o finditer(s, DatePatternAt(s, p))

\* the first position from p on at which the pattern matches
FirstMatchFrom(s, p) ==
    CHOOSE q \in p .. Len(s) :
        /\ DatePatternAt(s, q) /= NoMatch
        /\ \A k \in p .. q - 1 : DatePatternAt(s, k) = NoMatch

finditer(s, p) ==
    IF \A q \in p .. Len(s) : DatePatternAt(s, q) = NoMatch THEN <<>>
    ELSE MatchesFrom(s, FirstMatchFrom(s, p))

MONTHS ==
    {  <<<<"e", "n", "e", "r", "o">>, 1>>,
       <<<<"f", "e", "b", "r", "e", "r", "o">>, 2>>,
       <<<<"m", "a", "r", "z", "o">>, 3>>,
       <<<<"a", "b", "r", "i", "l">>, 4>>,
       <<<<"m", "a", "y", "o">>, 5>>,
       <<<<"j", "u", "n", "i", "o">>, 6>>,
       <<<<"j", "u", "l", "i", "o">>, 7>>,
       <<<<"a", "g", "o", "s", "t", "o">>, 8>>,
       <<<<"s", "e", "p", "t", "i", "e", "m", "b", "r", "e">>, 9>>,
       <<<<"s", "e", "t", "i", "e", "m", "b", "r", "e">>, 9>>,
       <<<<"o", "c", "t", "u", "b", "r", "e">>, 10>>,
       <<<<"n", "o", "v", "i", "e", "m", "b", "r", "e">>, 11>>,
       <<<<"d", "i", "c", "i", "e", "m", "b", "r", "e">>, 12>> }

\* MONTHS.get(month_name.lower()), 0 for None
MonthNumber(name) ==
    IF \E m \in MONTHS : m[1] = lower(name)
    THEN (CHOOSE m \in MONTHS : m[1] = lower(name))[2]
    ELSE 0

\* lines 90-94 and 100-104: the date of the groups when the month is known
DateOfGroups(day, month, year) ==
    IF month /= 0 THEN Date(int(year), month, int(day)) ELSE NoDate

\* lines 85-94: the first pattern, day first; NoDate when it gives nothing
SpanishDayFirst(text) ==
    IF DayFirstPattern(text, 1) = NoMatch THEN NoDate
    ELSE DateOfGroups(
            SubSeq(text, 1, Digits12(text, 1) - 1),
            MonthNumber(SubSeq(text, DayFirstMonthAt(text, 1),
                               Letters1(text, DayFirstMonthAt(text, 1)) - 1)),
            SubSeq(text, DayFirstPattern(text, 1) - 4, DayFirstPattern(text, 1) - 1))

\* lines 95-104: the second pattern, month first
SpanishMonthFirst(text) ==
    IF MonthFirstPattern(text, 1) = NoMatch THEN NoDate
    ELSE DateOfGroups(
            SubSeq(text, Spaces1(text, Letters1(text, 1)),
                   Digits12(text, Spaces1(text, Letters1(text, 1))) - 1),
            MonthNumber(SubSeq(text, 1, Letters1(text, 1) - 1)),
            SubSeq(text, MonthFirstYearAt(text, 1), MonthFirstYearAt(text, 1) + 3))

\* _parse_spanish_date(text): a date, NoDate, or ValueError raised by date()
_parse_spanish_date(text) ==
    IF SpanishDayFirst(text) /= NoDate THEN SpanishDayFirst(text)
    ELSE SpanishMonthFirst(text)

\* x or y, when x did not raise
OrSpanish(numeric, cleaned) ==
    IF numeric /= NoDate THEN numeric ELSE _parse_spanish_date(cleaned)

\* _parse_date(text)
_parse_date(text) == OrSpanish(_parse_numeric_date(strip(text)), strip(text))

---------------------------------------------------------------------------
(* text_parser.py: sections                                                *)

\* the length of the first line of s, without its line break
FirstLineLen(s) ==
    (CHOOSE q \in 1 .. Len(s) + 1 :
        /\ q > Len(s) \/ s[q] \in {"\n", "\r"}
        /\ \A k \in 1 .. q - 1 : s[k] \notin {"\n", "\r"}) - 1

\* what follows the line break at position k of s ("\r\n" is one line break)
AfterLineBreak(s, k) ==
    IF k < Len(s) /\ s[k] = "\r" /\ s[k + 1] = "\n"
    THEN SubSeq(s, k + 2, Len(s))
    ELSE SubSeq(s, k + 1, Len(s))

\* str.splitlines(), for the line breaks "\n", "\r" and "\r\n"
RECURSIVE splitlines(_)
RECURSIVE LinesFrom(_, _)
LinesFrom(s, n) == <<SubSeq(s, 1, n)>> \o splitlines(AfterLineBreak(s, n + 1))

splitlines(s) == IF s = <<>> THEN <<>> ELSE LinesFrom(s, FirstLineLen(s))

\* line 124: [line.strip() for line in text.splitlines()]
StrippedLines(lines) == [k \in DOMAIN lines |-> strip(lines[k])]

ParsedSection(lines) == [lines |-> lines]

\* lines 129-131: a non-empty buffer becomes a section
Flushed(sections, buffer) ==
    IF buffer /= <<>> THEN Append(sections, ParsedSection(buffer)) ELSE sections

\* mutant: the lines after the last blank line are dropped
AtEndDropped(sections, buffer) == sections

\* lines 134-135: the buffer left after the last line
AtEnd(sections, buffer) == Flushed(sections, buffer)

\* the loop of split_into_sections from line k on
RECURSIVE SectionsLoop(_, _, _, _)
SectionsLoop(lines, k, sections, buffer) ==
    IF k > Len(lines) THEN AtEnd(sections, buffer)
    ELSE IF lines[k] = <<>>
         THEN SectionsLoop(lines, k + 1, Flushed(sections, buffer), <<>>)
         ELSE SectionsLoop(lines, k + 1, sections, Append(buffer, lines[k]))

split_into_sections(text) ==
    SectionsLoop(StrippedLines(splitlines(text)), 1, <<>>, <<>>)

---------------------------------------------------------------------------
(* text_parser.py: the fields of one section                               *)

StartKeywords ==
    { <<"i", "n", "g", "r", "e", "s", "o">>,
      <<"i", "n", "i", "c", "i", "o">>,
      <<"d", "e", "s", "d", "e">>,
      <<"v", "i", "n", "c", "u", "l", "a", "c", "i", "ó", "n">>,
      <<"v", "i", "n", "c", "u", "l", "o">>,
      <<"s", "e", " ", "v", "i", "n", "c", "u", "l", "ó">> }
EndKeywords ==
    { <<"r", "e", "t", "i", "r", "o">>,
      <<"t", "e", "r", "m", "i", "n", "a", "c", "i", "ó", "n">>,
      <<"h", "a", "s", "t", "a">>,
      <<"c", "u", "l", "m", "i", "n", "a", "c", "i", "ó", "n">>,
      <<"f", "i", "n", "a", "l", "i", "z", "a", "c", "i", "ó", "n">>,
      <<"f", "i", "n", "a", "l", "i", "z", "o">>,
      <<"f", "i", "n", "a", "l", "i", "z", "ó">> }
IssueKeywords ==
    { <<"e", "x", "p", "e", "d", "i", "d", "o">>,
      <<"e", "x", "p", "i", "d", "e">>,
      <<"e", "m", "i", "t", "i", "d", "o">>,
      <<"f", "e", "c", "h", "a", " ", "d", "e", " ", "e", "x", "p", "e", "d", "i", "c", "i", "ó", "n">> }
EMPLOYER_HINTS ==
    { <<"e", "m", "p", "r", "e", "s", "a">>,
      <<"e", "n", "t", "i", "d", "a", "d">>,
      <<"c", "o", "m", "p", "a", "ñ", "í", "a">>,
      <<"c", "o", "m", "p", "a", "n", "i", "a">>,
      <<"o", "r", "g", "a", "n", "i", "z", "a", "c", "i", "ó", "n">>,
      <<"o", "r", "g", "a", "n", "i", "z", "a", "c", "i", "o", "n">>,
      <<"i", "n", "s", "t", "i", "t", "u", "c", "i", "ó", "n">>,
      <<"i", "n", "s", "t", "i", "t", "u", "c", "i", "o", "n">>,
      <<"r", "a", "z", "ó", "n", " ", "s", "o", "c", "i", "a", "l">>,
      <<"r", "a", "z", "o", "n", " ", "s", "o", "c", "i", "a", "l">>,
      <<"d", "e", "p", "e", "n", "d", "e", "n", "c", "i", "a">> }

\* the words the pattern of line 175 removes, whatever their case
EmployerWords ==
    { <<"e", "m", "p", "r", "e", "s", "a">>,
      <<"e", "n", "t", "i", "d", "a", "d">>,
      <<"c", "o", "m", "p", "a", "ñ", "í", "a">>,
      <<"c", "o", "m", "p", "a", "n", "í", "a">>,
      <<"o", "r", "g", "a", "n", "i", "z", "a", "c", "i", "ó", "n">>,
      <<"o", "r", "g", "a", "n", "i", "z", "a", "c", "i", "o", "n">>,
      <<"i", "n", "s", "t", "i", "t", "u", "c", "i", "ó", "n">>,
      <<"i", "n", "s", "t", "i", "t", "u", "c", "i", "o", "n">>,
      <<"r", "a", "z", "ó", "n", " ", "s", "o", "c", "i", "a", "l">>,
      <<"r", "a", "z", "o", "n", " ", "s", "o", "c", "i", "a", "l">>,
      <<"d", "e", "p", "e", "n", "d", "e", "n", "c", "i", "a">>,
      <<":">> }

\* the characters before and after a date in which a keyword is looked for
KeywordWindow == 80

\* needle in hay
Contains(hay, needle) ==
    \E p \in 1 .. Len(hay) - Len(needle) + 1 :
        SubSeq(hay, p, p + Len(needle) - 1) = needle

\* lines 148-154: a keyword stands in the window before (after) the match
KeywordNear(lowered, match, keywords, position) ==
    \/ /\ position \in {"before", "any"}
       /\ \E keyword \in keywords :
             Contains(SubSeq(lowered, Max(match.start - KeywordWindow, 0) + 1, match.start),
                      keyword)
    \/ /\ position \in {"after", "any"}
       /\ \E keyword \in keywords :
             Contains(SubSeq(lowered, match.end + 1,
                             IF match.end + KeywordWindow < Len(lowered)
                             THEN match.end + KeywordWindow ELSE Len(lowered)),
                      keyword)

\* the loop of _find_first_matching_date from match k on
RECURSIVE FindLoop(_, _, _, _, _)
RECURSIVE AfterParse(_, _, _, _, _, _)
AfterParse(lowered, matches, k, keywords, position, parsed) ==
    IF parsed /= NoDate THEN parsed
    ELSE FindLoop(lowered, matches, k + 1, keywords, position)

FindLoop(lowered, matches, k, keywords, position) ==
    IF k > Len(matches) THEN NoDate
    ELSE IF KeywordNear(lowered, matches[k], keywords, position)
         THEN AfterParse(lowered, matches, k, keywords, position,
                         _parse_date(matches[k].date))
         ELSE FindLoop(lowered, matches, k + 1, keywords, position)

\* _find_first_matching_date(section_text, keywords, position=...): a date,
\* NoDate, or ValueError when _parse_date raised
_find_first_matching_date(section_text, keywords, position) ==
    FindLoop(lower(section_text), finditer(section_text, 1), 1, keywords, position)

\* "\n".join(lines)
RECURSIVE join(_)
join(lines) ==
    IF lines = <<>> THEN <<>>
    ELSE IF Len(lines) = 1 THEN lines[1]
    ELSE lines[1] \o <<"\n">> \o join(Tail(lines))

\* the last match parsed, when there is one
LastCandidate(date_candidates) ==
    IF date_candidates = <<>> THEN NoDate
    ELSE _parse_date(date_candidates[Len(date_candidates)].date)

_extract_issue_date(section) == LastCandidate(finditer(join(section.lines), 1))

\* re.sub of line 174 from position p on: the words removed, the rest kept
RECURSIVE WithoutEmployerWords(_, _)
WithoutEmployerWords(line, p) ==
    IF p > Len(line) THEN <<>>
    ELSE IF \E w \in EmployerWords : Literal(line, p, w) /= NoMatch
         THEN WithoutEmployerWords(line,
                  Literal(line, p, CHOOSE w \in EmployerWords : Literal(line, p, w) /= NoMatch))
         ELSE <<line[p]>> \o WithoutEmployerWords(line, p + 1)

\* str.strip(chars)
RECURSIVE StripChars(_, _)
StripChars(s, chars) ==
    IF s /= <<>> /\ Head(s) \in chars THEN StripChars(Tail(s), chars)
    ELSE IF s /= <<>> /\ s[Len(s)] \in chars THEN StripChars(SubSeq(s, 1, Len(s) - 1), chars)
    ELSE s

\* lines 174-179
CleanedEmployer(line) == StripChars(WithoutEmployerWords(line, 1), {" ", "-", ":"})

\* lines 182-185: the first of the longest lines, trimmed
LongestLine(lines) ==
    IF \A k \in DOMAIN lines : strip(lines[k]) = <<>> THEN NoneStr
    ELSE strip(lines[CHOOSE k \in DOMAIN lines :
                        /\ strip(lines[k]) /= <<>>
                        /\ \A j \in DOMAIN lines :
                              strip(lines[j]) /= <<>> =>
                                 \/ Len(lines[j]) < Len(lines[k])
                                 \/ Len(lines[j]) = Len(lines[k]) /\ k <= j])

\* the loop of _extract_employer from line k on
RECURSIVE EmployerLoop(_, _)
EmployerLoop(lines, k) ==
    IF k > Len(lines) THEN LongestLine(lines)
    ELSE IF /\ \E hint \in EMPLOYER_HINTS : Contains(lower(lines[k]), hint)
            /\ CleanedEmployer(lines[k]) /= <<>>
         THEN CleanedEmployer(lines[k])
         ELSE EmployerLoop(lines, k + 1)

_extract_employer(section) == EmployerLoop(section.lines, 1)

\* lines 196-198: the three dates looked for by keyword
KeywordDates(section_text) ==
    [start_date |-> _find_first_matching_date(section_text, StartKeywords, "before"),
     end_date |-> _find_first_matching_date(section_text, EndKeywords, "before"),
     issue_date |-> _find_first_matching_date(section_text, IssueKeywords, "before")]

Raises(dates) == ValueError \in {dates.start_date, dates.end_date, dates.issue_date}

\* lines 199-200: the issue date is the last date of the section when no
\* keyword gave one
WithIssueDate(section, dates) ==
    IF ~Raises(dates) /\ dates.issue_date = NoDate
    THEN [dates EXCEPT !.issue_date = _extract_issue_date(section)]
    ELSE dates

\* the dates of a section
SectionDates(section) == WithIssueDate(section, KeywordDates(join(section.lines)))

\* the loop of parse_experiences_from_text from section k on: what the call
\* returns, or that it raised
RECURSIVE ExperiencesLoop(_, _, _, _)
RECURSIVE AfterSection(_, _, _, _, _)
AfterSection(sections, k, source, experiences, dates) ==
    IF Raises(dates) THEN [raised |-> TRUE, value |-> <<>>]
    ELSE IF dates.start_date = NoDate /\ dates.end_date = NoDate /\ dates.issue_date = NoDate
         THEN ExperiencesLoop(sections, k + 1, source, experiences)
         ELSE ExperiencesLoop(sections, k + 1, source,
                  Append(experiences,
                         ExperienceRecord(source, _extract_employer(sections[k]),
                                          dates.start_date, dates.end_date,
                                          dates.issue_date)))

ExperiencesLoop(sections, k, source, experiences) ==
    IF k > Len(sections) THEN [raised |-> FALSE, value |-> experiences]
    ELSE AfterSection(sections, k, source, experiences, SectionDates(sections[k]))

\* lines 191-192: the whole text is one section when there are none
OrWholeText(sections, text) ==
    IF sections = <<>> THEN <<ParsedSection(<<text>>)>> ELSE sections

parse_experiences_from_text(text, source) ==
    ExperiencesLoop(OrWholeText(split_into_sections(text), text), 1, source, <<>>)

---------------------------------------------------------------------------
(* Record construction on its own: every combination of the three dates.   *)

MaxDay == 5
OptDates == {NoDate} \cup (1 .. MaxDay)

NoCall == [op |-> "none"]

Init ==
    /\ heap = <<>>
    /\ synth = <<>>
    /\ grouped = <<>>
    /\ merged = <<>>
    /\ comparisons = <<>>
    /\ call = NoCall
    /\ before = <<>>
    /\ returned = [raised |-> FALSE, value |-> <<>>]

\* tests/test_models.py: one record is constructed and read
NewRecord ==
    /\ heap = <<>>
    /\ \E s \in OptDates, e \in OptDates, i \in OptDates :
          heap' = <<ExperienceRecord(<<"Certificado">>, <<"E">>, s, e, i)>>
    /\ call' = [op |-> "construct"]
    /\ UNCHANGED <<synth, grouped, merged, comparisons, before, returned>>

RecordNext == NewRecord

SpecRecord == Init /\ [][RecordNext]_vars

---------------------------------------------------------------------------
(* One reconciliation of freshly built records, as tests/test_comparer.py  *)
(* does: the certificates and the résumé entries are drawn from two pools.  *)

MaxCertificates == 2
MaxCvEntries == 2

SeqsUpTo(S, n) == UNION {[1 .. k -> S] : k \in 0 .. n}

\* the references k + 1 .. k + n, in order
RefsFrom(k, n) == [j \in 1 .. n |-> k + j]

\* the state a call of compare_certificates_with_cv leaves
Returned(H, certificates, cv_entries, out) ==
    /\ heap' = H
    /\ before' = H
    /\ call' = [op |-> "compare", certificates |-> certificates,
                cv_entries |-> cv_entries]
    /\ comparisons' = out.comparisons
    /\ synth' = out.built
    /\ UNCHANGED <<grouped, merged, returned>>

\* compare_certificates_with_cv called by the holder of the heap H
CallCompare(H, certificates, cv_entries) ==
    Returned(H, certificates, cv_entries,
             compare_certificates_with_cv(H, certificates, cv_entries))

TestCompare ==
    /\ call = NoCall
    /\ \E certs \in SeqsUpTo(CertificatePool, MaxCertificates),
          cvs \in SeqsUpTo(CvPool, MaxCvEntries) :
          CallCompare(certs \o cvs,
                      RefsFrom(0, Len(certs)), RefsFrom(Len(certs), Len(cvs)))

CompareNext == TestCompare

SpecCompare == Init /\ [][CompareNext]_vars

---------------------------------------------------------------------------
(* A caller that constructs records, merges some of them and reconciles    *)
(* them, in any order.  It keeps the last list each function returned.     *)

MaxHeap == 2

\* the sub-sequences of the references 1 .. n, in the order of construction
RECURSIVE SubLists(_)
SubLists(n) ==
    IF n = 0 THEN {<<>>}
    ELSE SubLists(n - 1) \cup {Append(t, n) : t \in SubLists(n - 1)}

Construct ==
    /\ Len(heap) < MaxHeap
    /\ \E record \in RecordPool : heap' = Append(heap, record)
    /\ UNCHANGED <<synth, grouped, merged, comparisons, call, before, returned>>

\* the state a call of merge_overlapping_records leaves
MergeReturned(records, out) ==
    /\ heap' = out.heap
    /\ before' = heap
    /\ call' = [op |-> "merge", records |-> records]
    /\ grouped' = out.grouped
    /\ merged' = out.merged
    /\ UNCHANGED <<synth, comparisons, returned>>

Merge ==
    \E records \in SubLists(Len(heap)) :
        MergeReturned(records, merge_overlapping_records(heap, records))

Compare ==
    \E k \in 0 .. Len(heap) :
        CallCompare(heap, RefsFrom(0, k), RefsFrom(k, Len(heap) - k))

Next == Construct \/ Merge \/ Compare

Spec == Init /\ [][Next]_vars

---------------------------------------------------------------------------
(* One call of a function of text_parser.py on a text.                     *)

\* the digit strings the numeric dates are written with
DayFields == {<<"1">>, <<"0", "9">>, <<"2", "9">>, <<"3", "1">>}
MonthFields == {<<"1">>, <<"0", "2">>, <<"0", "4">>, <<"1", "2">>}
YearFields ==
    {<<Digits[a], Digits[b]>> : a \in 1 .. 10, b \in 1 .. 10}
        \cup {<<"2", "0", "2", "0">>, <<"0", "0", "5", "0">>,
                        <<"0", "0", "0", "0">>, <<"2", "0", "0">>}
Separators == {"/", "-"}

\* _parse_numeric_date called on a string of three fields
TestParseNumericDate ==
    /\ call = NoCall
    /\ \E a \in DayFields \cup YearFields, b \in MonthFields,
          c \in DayFields \cup YearFields, s1 \in Separators, s2 \in Separators :
          /\ (a \in DayFields) /= (c \in DayFields)
          /\ call' = [op |-> "_parse_numeric_date", text |-> a \o <<s1>> \o b \o <<s2>> \o c]
          /\ returned' = [raised |-> FALSE,
                          value |-> _parse_numeric_date(a \o <<s1>> \o b \o <<s2>> \o c)]
    /\ UNCHANGED <<heap, synth, grouped, merged, comparisons, before>>

\* the greatest length of the texts split into sections, which are made of
\* a letter, a space and a line feed
MaxText == 7

\* split_into_sections called on a text
TestSplitIntoSections ==
    /\ call = NoCall
    /\ \E text \in SeqsUpTo({"a", " ", "\n"}, MaxText) :
          /\ call' = [op |-> "split_into_sections", text |-> text]
          /\ returned' = [raised |-> FALSE, value |-> split_into_sections(text)]
    /\ UNCHANGED <<heap, synth, grouped, merged, comparisons, before>>

\* the lines the parsed texts are made of: an employer, dates with and
\* without a keyword, dates that do not exist, a blank line, and a start
\* keyword that stands more than KeywordWindow characters before its date
LinePool ==
    { <<"E", "m", "p", "r", "e", "s", "a", ":", " ", "A", "C", "M", "E">>,
      <<"i", "n", "g", "r", "e", "s", "o", " ", "3", "1", " ", "d", "e", " ", "a", "b", "r", "i", "l", " ", "d", "e", " ", "2", "0", "2", "0">>,
      <<"d", "e", "s", "d", "e", " ", "1", "/", "2", "/", "2", "0", "2", "0", " ", "h", "a", "s", "t", "a", " ", "3", "/", "4", "/", "2", "1">>,
      <<"a", "b", "r", "i", "l", " ", "3", "1", ",", " ", "2", "0", "2", "0">>,
      <<"e", "x", "p", "e", "d", "i", "d", "o", " ", "5", " ", "d", "e", " ", "m", "a", "y", "o", " ", "d", "e", " ", "2", "0", "2", "1">>,
      <<"3", "1", "/", "0", "4", "/", "2", "0", "2", "0">>,
      <<"1", " ", "d", "e", " ", "e", "n", "e", "r", "o", " ", "d", "e", " ", "0", "0", "0", "0">>,
      <<"5", " ", "d", "e", " ", "f", "o", "o", " ", "d", "e", " ", "2", "0", "2", "0">>,
      <<>>,
      <<"i", "n", "i", "c", "i", "o">> \o [k \in 1 .. 75 |-> "."]
          \o <<"1", "/", "2", "/", "2", "0", "2", "0">> }
MaxLines == 2

\* parse_experiences_from_text called on a text
TestParseExperiences ==
    /\ call = NoCall
    /\ \E lines \in SeqsUpTo(LinePool, MaxLines) :
          /\ call' = [op |-> "parse_experiences_from_text", text |-> join(lines)]
          /\ returned' = parse_experiences_from_text(join(lines), <<"Certificado">>)
    /\ UNCHANGED <<heap, synth, grouped, merged, comparisons, before>>

ParserNext == TestParseNumericDate \/ TestSplitIntoSections \/ TestParseExperiences

SpecParser == Init /\ [][ParserNext]_vars

\* C1: for every record, effective_end_date is the minimum of the non-null
\* values among end_date and issue_date, and is null when both are null or
\* when start_date is null.
C1_EffectiveEndIsEarliest ==
    \A k \in DOMAIN heap :
        LET r == heap[k]
            given == {d \in {r.end_date, r.issue_date} : d /= NoDate}
        IN  IF r.start_date = NoDate \/ given = {}
            THEN r.effective_end_date = NoDate
            ELSE /\ r.effective_end_date \in given
                 /\ \A d \in given : r.effective_end_date <= d

\* C1 witness: a record with a start date whose issue date precedes its end date
C1_Witness ==
    \E k \in DOMAIN heap :
        /\ heap[k].start_date /= NoDate
        /\ heap[k].end_date /= NoDate
        /\ heap[k].issue_date /= NoDate
        /\ heap[k].issue_date < heap[k].end_date
        /\ heap[k].effective_end_date = heap[k].issue_date

\* C2: with start_date and effective_end_date both present, experience_days is
\* (effective_end_date - start_date) + 1 floored at 0, never negative; for
\* every other record experience_days is null.
C2_ExperienceDays ==
    \A k \in DOMAIN heap :
        LET r == heap[k]
            span == (r.effective_end_date - r.start_date) + 1
        IN  IF r.start_date /= NoDate /\ r.effective_end_date /= NoDate
            THEN /\ r.experience_days = (IF span < 0 THEN 0 ELSE span)
                 /\ r.experience_days >= 0
            ELSE r.experience_days = NoDays

\* C2 witness: a counted span of several days, as in scenario A
C2_Witness ==
    \E k \in DOMAIN heap :
        /\ heap[k].start_date /= NoDate
        /\ heap[k].effective_end_date > heap[k].start_date
        /\ heap[k].experience_days = (heap[k].effective_end_date - heap[k].start_date) + 1

\* C2 witness of the floor: the effective end precedes the start
C2_FloorReached ==
    \E k \in DOMAIN heap :
        /\ heap[k].start_date /= NoDate
        /\ heap[k].effective_end_date /= NoDate
        /\ heap[k].effective_end_date < heap[k].start_date
        /\ heap[k].experience_days = 0

---------------------------------------------------------------------------
(* Claims about compare_certificates_with_cv, read on the state a call left *)

Compared == call.op = "compare"
NCertificates == Len(call.certificates)
OnlyInCv == "Registro presente solo en la hoja de vida"
ByEmployerAndDate == "Coincidencia por empleador y fecha"
Partial == "Coincidencia parcial"
NotFound == "No se encontró coincidencia en la hoja de vida"

\* the positions of cv_entries that a certificate's result holds as cv_entry
MatchedCvPositions ==
    {idx \in DOMAIN call.cv_entries :
        \E c \in 1 .. NCertificates : comparisons[c].cv_entry = call.cv_entries[idx]}

\* both start dates are present and at most 7 days apart
StartsWithinAWeek(certificate, cv_entry) ==
    /\ certificate.start_date /= NoDate
    /\ cv_entry.start_date /= NoDate
    /\ certificate.start_date - cv_entry.start_date <= 7
    /\ cv_entry.start_date - certificate.start_date <= 7

\* C3: the result holds one entry per certificate in input order, followed by
\* one informational entry per résumé record never accepted as a match, in
\* résumé order, and none for a matched résumé record, so that its length is
\* |C| + |R| - (number of distinct matched résumé records).
C3_ResultShape ==
    Compared =>
        LET n == NCertificates
            unmatched == SelectSeq([idx \in DOMAIN call.cv_entries |-> idx],
                                   LAMBDA idx : idx \notin MatchedCvPositions)
        IN  /\ Len(comparisons) = n + Len(call.cv_entries) - Cardinality(MatchedCvPositions)
            /\ \A c \in 1 .. n :
                  /\ comparisons[c].certificate = call.certificates[c]
                  /\ comparisons[c].details /= OnlyInCv
            /\ \A j \in 1 .. Len(unmatched) :
                  /\ comparisons[n + j].cv_entry = call.cv_entries[unmatched[j]]
                  /\ comparisons[n + j].details = OnlyInCv
                  /\ comparisons[n + j].certificate \notin
                        {call.certificates[c] : c \in 1 .. n}

\* C3 witness: two certificates, one matched and one not, and two résumé
\* records, one matched and one reported as present only in the résumé
C3_Witness ==
    /\ Compared
    /\ NCertificates = 2
    /\ Len(call.cv_entries) = 2
    /\ Len(comparisons) = 3
    /\ comparisons[1].cv_entry = NoRef
    /\ comparisons[2].cv_entry = call.cv_entries[2]
    /\ comparisons[3].cv_entry = call.cv_entries[1]
    /\ comparisons[3].details = OnlyInCv

\* C4: among the results for the certificates, each résumé record occurs as
\* cv_entry at most once: a later certificate is never matched to a résumé
\* record that an earlier certificate was matched to.
C4_CvEntryMatchedOnce ==
    Compared =>
        \A c1 \in 1 .. NCertificates, c2 \in 1 .. NCertificates :
            (c1 < c2 /\ comparisons[c1].cv_entry /= NoRef)
                => comparisons[c2].cv_entry /= comparisons[c1].cv_entry

\* C5: a certificate's result has a cv_entry exactly when some résumé record
\* scores above 0.3 with it; a matched result is date-confirmed exactly when
\* the start dates of the pair are present and within 7 days, and partial
\* otherwise; an unmatched result has no cv_entry and no date match; so
\* start_date_match is true only on date-confirmed matches and on the
\* informational rows.
C5_MatchDecision ==
    Compared =>
        /\ \A c \in 1 .. NCertificates :
              LET res == comparisons[c]
                  cert == heap[call.certificates[c]]
                  above == \E idx \in DOMAIN call.cv_entries :
                              FracGT(_score_pair(cert, heap[call.cv_entries[idx]]).score,
                                     Frac(3, 10))
              IN  /\ (res.cv_entry /= NoRef) <=> above
                  /\ res.cv_entry /= NoRef =>
                        IF StartsWithinAWeek(cert, heap[res.cv_entry])
                        THEN res.start_date_match /\ res.details = ByEmployerAndDate
                        ELSE ~res.start_date_match /\ res.details = Partial
                  /\ res.cv_entry = NoRef =>
                        ~res.start_date_match /\ res.details = NotFound
        /\ \A k \in DOMAIN comparisons :
              comparisons[k].start_date_match =>
                  \/ comparisons[k].details = OnlyInCv
                  \/ /\ k <= NCertificates
                     /\ comparisons[k].cv_entry /= NoRef
                     /\ StartsWithinAWeek(heap[comparisons[k].certificate],
                                          heap[comparisons[k].cv_entry])

\* C5 witness: one call that leaves a date-confirmed match and an unmatched
\* certificate whose best score is exactly 0.3 (no name in common, same start)
C5_Witness ==
    /\ Compared
    /\ NCertificates = 2
    /\ comparisons[1].details = ByEmployerAndDate
    /\ comparisons[2].details = NotFound
    /\ \E idx \in DOMAIN call.cv_entries :
          FracEQ(_score_pair(heap[call.certificates[2]], heap[call.cv_entries[idx]]).score,
                 Frac(3, 10))

\* C5 witness of the partial case: a match that the dates do not confirm
C5_PartialReached ==
    /\ Compared
    /\ \E c \in 1 .. NCertificates :
          /\ comparisons[c].details = Partial
          /\ comparisons[c].cv_entry /= NoRef

\* the two employer names have the same non-empty normalized form
SameNormalizedName(a, b) ==
    _normalize_name(a) /= <<>> /\ _normalize_name(a) = _normalize_name(b)

\* C6: when the résumé list holds a record with the certificate's normalized
\* (non-empty) employer name whose start date is within 7 days of the
\* certificate's, the certificate is matched, date-confirmed, whatever other
\* résumé records are present and wherever they stand.
C6_SameEmployerAndStartMatches ==
    Compared =>
        \A c \in 1 .. NCertificates :
            LET cert == heap[call.certificates[c]]
            IN  (\E idx \in DOMAIN call.cv_entries :
                    /\ SameNormalizedName(cert.employer, heap[call.cv_entries[idx]].employer)
                    /\ StartsWithinAWeek(cert, heap[call.cv_entries[idx]]))
                => /\ comparisons[c].cv_entry /= NoRef
                   /\ comparisons[c].start_date_match
                   /\ comparisons[c].details = ByEmployerAndDate

\* C6 witness: the record with the same employer and start stands second,
\* after a record with the same employer that starts 8 days later
C6_Witness ==
    /\ Compared
    /\ NCertificates >= 1
    /\ Len(call.cv_entries) = 2
    /\ SameNormalizedName(heap[call.certificates[1]].employer, heap[call.cv_entries[1]].employer)
    /\ ~StartsWithinAWeek(heap[call.certificates[1]], heap[call.cv_entries[1]])
    /\ SameNormalizedName(heap[call.certificates[1]].employer, heap[call.cv_entries[2]].employer)
    /\ StartsWithinAWeek(heap[call.certificates[1]], heap[call.cv_entries[2]])
    /\ comparisons[1].cv_entry = call.cv_entries[2]
    /\ comparisons[1].start_date_match

\* the informational rows of the result
InformationalRows == {k \in DOMAIN comparisons : comparisons[k].details = OnlyInCv}

\* C13: every informational row has the résumé record as cv_entry and, as
\* certificate, a record labelled 'Hoja de vida' with the résumé record's
\* employer, start_date, end_date and issue_date, hence with its
\* effective_end_date and experience_days, and start_date_match is true.
C13_SyntheticFromCvFields ==
    Compared =>
        \A k \in InformationalRows :
            LET cert == Deref(comparisons[k].certificate)
                cv == heap[comparisons[k].cv_entry]
            IN  /\ comparisons[k].cv_entry \in {call.cv_entries[idx] : idx \in DOMAIN call.cv_entries}
                /\ cert.source = <<"Hoja de vida">>
                /\ cert.employer = cv.employer
                /\ cert.start_date = cv.start_date
                /\ cert.end_date = cv.end_date
                /\ cert.issue_date = cv.issue_date
                /\ cert.effective_end_date = cv.effective_end_date
                /\ cert.experience_days = cv.experience_days
                /\ comparisons[k].start_date_match

\* the name similarity of the pair is 0: an employer is missing or normalizes
\* to the empty string, or the normalized names have no block in common
NameSimilarityZero(certificate, cv_entry) ==
    \/ _normalize_name(certificate.employer) = <<>>
    \/ _normalize_name(cv_entry.employer) = <<>>
    \/ FracEQ(EmployerSimilarity(certificate.employer, cv_entry.employer), Frac(0, 1))

\* C15: a pair whose name similarity is 0 scores at most 0.3, whatever its
\* dates; a certificate whose name similarity is 0 with every résumé record
\* gets the unmatched result, and each of those résumé records that no other
\* certificate was matched to is left for an informational row.
C15_NeverMatchedOnDatesAlone ==
    Compared =>
        \A c \in 1 .. NCertificates :
            LET cert == heap[call.certificates[c]]
            IN  /\ \A idx \in DOMAIN call.cv_entries :
                      NameSimilarityZero(cert, heap[call.cv_entries[idx]])
                         => ~FracGT(_score_pair(cert, heap[call.cv_entries[idx]]).score,
                                    Frac(3, 10))
                /\ (\A idx \in DOMAIN call.cv_entries :
                        NameSimilarityZero(cert, heap[call.cv_entries[idx]]))
                   => /\ comparisons[c].cv_entry = NoRef
                      /\ ~comparisons[c].start_date_match
                      /\ comparisons[c].details = NotFound
                      /\ NCertificates = 1 =>
                            \A idx \in DOMAIN call.cv_entries :
                                \E k \in InformationalRows :
                                    comparisons[k].cv_entry = call.cv_entries[idx]

\* C15 witness: the only certificate has no employer, a résumé record has
\* the same start date (the pair scores exactly 0.3), and the certificate is
\* left unmatched while the résumé record gets its informational row
C15_Witness ==
    /\ Compared
    /\ NCertificates = 1
    /\ Len(call.cv_entries) >= 1
    /\ heap[call.certificates[1]].employer = NoneStr
    /\ heap[call.certificates[1]].start_date /= NoDate
    /\ heap[call.certificates[1]].start_date = heap[call.cv_entries[1]].start_date
    /\ FracEQ(_score_pair(heap[call.certificates[1]], heap[call.cv_entries[1]]).score,
              Frac(3, 10))
    /\ comparisons[1].details = NotFound
    /\ \E k \in InformationalRows : comparisons[k].cv_entry = call.cv_entries[1]

---------------------------------------------------------------------------
(* Claims about merge_overlapping_records, read on the state a call left   *)

Merged == call.op = "merge"

\* earlier and later are same-employer records, later starts on or after
\* earlier's start and not after earlier's effective end
OverlapOrAdjacent(earlier, later) ==
    /\ earlier.employer = later.employer
    /\ earlier.start_date /= NoDate
    /\ later.start_date /= NoDate
    /\ earlier.start_date <= later.start_date
    /\ earlier.effective_end_date /= NoDate
    /\ later.start_date <= earlier.effective_end_date

\* C7: merging two same-employer records of which the later-starting one
\* starts on or before the effective end of the other returns a single record
\* whose experience_days is at least the larger of the two records'
\* experience_days as they were before the call.
C7_MergeKeepsLargerDays ==
    (Merged /\ Len(call.records) = 2) =>
        LET a == before[call.records[1]]
            b == before[call.records[2]]
        IN  (OverlapOrAdjacent(a, b) \/ OverlapOrAdjacent(b, a)) =>
                /\ Len(merged) = 1
                /\ heap[merged[1]].experience_days >= a.experience_days
                /\ heap[merged[1]].experience_days >= b.experience_days

\* C8: a merge changes no field of a record the caller passed in or holds.
C8_MergeLeavesRecordsAlone ==
    Merged => \A k \in DOMAIN before : heap[k] = before[k]

\* the records at positions i and j of the argument are in the same group
SameGroup(i, j) ==
    \E g \in DOMAIN grouped :
        /\ \E p \in DOMAIN grouped[g].items : grouped[g].items[p] = call.records[i]
        /\ \E p \in DOMAIN grouped[g].items : grouped[g].items[p] = call.records[j]

\* C9: two records are in the same merge group exactly when their employer
\* names have the same normalized form, the reconciler's _normalize_name.
C9_GroupsByNormalizedName ==
    Merged =>
        \A i \in DOMAIN call.records, j \in DOMAIN call.records :
            SameGroup(i, j) <=>
                _normalize_name(before[call.records[i]].employer)
                    = _normalize_name(before[call.records[j]].employer)

\* the derived fields of the record are those its raw dates give
DerivedInSync(record) ==
    /\ record.effective_end_date
          = _compute_effective_end(record.start_date, record.end_date, record.issue_date)
    /\ record.experience_days
          = _compute_days(record.start_date, record.effective_end_date)

\* C10: after any sequence of constructions, merges and reconciliations, every
\* record a caller can reach (the records it built, those a merge returned,
\* the certificate and cv_entry of every ComparisonResult) has
\* effective_end_date and experience_days computed from its current dates.
C10_DerivedFieldsInSync ==
    /\ \A k \in DOMAIN heap : DerivedInSync(heap[k])
    /\ \A m \in DOMAIN merged : DerivedInSync(heap[merged[m]])
    /\ \A c \in DOMAIN comparisons :
          /\ DerivedInSync(Deref(comparisons[c].certificate))
          /\ comparisons[c].cv_entry /= NoRef => DerivedInSync(heap[comparisons[c].cv_entry])

\* C10 witness: a merge has overwritten the end date of a record that the
\* result of an earlier reconciliation holds as its certificate
C10_Witness ==
    /\ Merged
    /\ \E c \in DOMAIN comparisons :
          LET k == comparisons[c].certificate
          IN  /\ k \in DOMAIN before
              /\ heap[k].end_date /= before[k].end_date
              /\ heap[k].experience_days /= before[k].experience_days

---------------------------------------------------------------------------
(* Claims about text_parser.py, read on the state a call left              *)

\* the three fields of the text of the call when it reads D<sep>M<sep>YY with
\* a two-digit year, else the empty sequence
DayMonthYY(sep) ==
    LET parts == split(call.text, sep)
    IN  IF /\ Len(parts) = 3
           /\ \A k \in 1 .. 3 : AllDigits(parts[k])
           /\ Len(parts[1]) <= 2 /\ Len(parts[2]) <= 2 /\ Len(parts[3]) = 2
        THEN <<int(parts[1]), int(parts[2]), int(parts[3])>>
        ELSE <<>>

\* the year a two-digit year stands for: the 1900s from 50 on, else the 2000s
PivotYear(yy) == IF yy >= 50 THEN 1900 + yy ELSE 2000 + yy

\* C12: a numeric date D/M/YY or D-M-YY with a valid day and month and a
\* two-digit year yy is parsed to the date of year 1900+yy when yy >= 50 and
\* of year 2000+yy when yy < 50.
C12_TwoDigitYearPivot ==
    call.op = "_parse_numeric_date" =>
        \A sep \in Separators :
            LET dmy == DayMonthYY(sep)
            IN  (/\ dmy /= <<>>
                 /\ dmy[2] \in 1 .. 12
                 /\ dmy[1] \in 1 .. DaysInMonth(PivotYear(dmy[3]), dmy[2]))
                => returned.value = toordinal(PivotYear(dmy[3]), dmy[2], dmy[1])

\* the trimmed lines of the text of the call, and the positions of those
\* that are not blank
InputLines == StrippedLines(splitlines(call.text))
NonBlank == {k \in DOMAIN InputLines : InputLines[k] /= <<>>}

\* the lines of the sections, one after the other
RECURSIVE Flattened(_)
Flattened(sections) ==
    IF sections = <<>> THEN <<>>
    ELSE Head(sections).lines \o Flattened(Tail(sections))

\* the section that holds the non-blank input line k: the line is the n-th
\* line of the sections taken together, n being its rank among the non-blank
SectionOf(sections, k) ==
    LET n == Cardinality({j \in NonBlank : j <= k})
    IN  CHOOSE sec \in DOMAIN sections :
            /\ Len(Flattened(SubSeq(sections, 1, sec - 1))) < n
            /\ n <= Len(Flattened(SubSeq(sections, 1, sec)))

\* C14: the sections are non-empty and hold only non-blank trimmed lines;
\* taken together they are the trimmed non-blank lines of the text in order;
\* two consecutive non-blank lines share a section and two lines with a blank
\* line between them do not; a text of non-blank lines gives one section and a
\* text without a non-blank line gives none.
C14_SectionsPartitionLines ==
    call.op = "split_into_sections" =>
        LET sections == returned.value
        IN  /\ \A sec \in DOMAIN sections :
                  /\ sections[sec].lines /= <<>>
                  /\ \A k \in DOMAIN sections[sec].lines :
                        /\ sections[sec].lines[k] /= <<>>
                        /\ strip(sections[sec].lines[k]) = sections[sec].lines[k]
            /\ Flattened(sections) = SelectSeq(InputLines, LAMBDA line : line /= <<>>)
            /\ \A i \in NonBlank, j \in NonBlank :
                  /\ j = i + 1 => SectionOf(sections, i) = SectionOf(sections, j)
                  /\ (\E b \in DOMAIN InputLines : i < b /\ b < j /\ b \notin NonBlank)
                        => SectionOf(sections, i) /= SectionOf(sections, j)
            /\ (NonBlank /= {} /\ NonBlank = DOMAIN InputLines) => Len(sections) = 1
            /\ NonBlank = {} => sections = <<>>

\* C14 witness: two lines, one of them trimmed, then a blank line and a last
\* line: two sections, of two lines and of one
C14_Witness ==
    /\ call.op = "split_into_sections"
    /\ Len(InputLines) = 4
    /\ NonBlank = {1, 2, 4}
    /\ \E k \in NonBlank : splitlines(call.text)[k] /= InputLines[k]
    /\ Len(returned.value) = 2
    /\ Len(returned.value[1].lines) = 2
    /\ Len(returned.value[2].lines) = 1

\* C11: parse_experiences_from_text never raises, whatever the text: a span
\* the date pattern matches that is not a calendar date gives no date and
\* the extraction goes on.
C11_ParsingIsTotal ==
    call.op = "parse_experiences_from_text" => ~returned.raised

=============================================================================
